---- MODULE Spec2Model ----
(***************************************************************************)
(* Model of the PortalBox NeoPixel controller firmware (firmware.cpp).     *)
(*                                                                         *)
(* The firmware is one non-preemptive control loop: loop() drains the      *)
(* serial bytes that are available, assembling lines in input_buffer and   *)
(* handing each completed line to process_command, and then advances the   *)
(* pulse animation by one step when is_pulsing is set.  One Loop action    *)
(* is one call of loop().                                                  *)
(*                                                                         *)
(* The LED strip driver and the serial port are used through their        *)
(* interface only: the strip is a pixel array and a brightness on which    *)
(* show() is called, the serial port a byte source and a line sink.        *)
(* Every call of show, delay and println of a loop iteration is recorded   *)
(* as an event in log, so that what a command did, and in which order,     *)
(* can be stated in the state the iteration ends in.                       *)
(*                                                                         *)
(* int is the 16-bit int of the target (ATmega328, line 9 of the source).  *)
(***************************************************************************)
EXTENDS Integers, Sequences, FiniteSets, TLC

\* ------------------------------------------------------------ constants

MAX_INPUT_BUFFER_LEN == 127
LED_COUNT == 15
DEFAULT_BRIGHTNESS == 128
MAX_PULSE_BRIGHTNESS == 120
MIN_PULSE_BRIGHTNESS == 20
PULSE_BRIGHTNESS_STEP == 5

HIGH == "HIGH"
LOW == "LOW"

\* number of values of the target's 16-bit int
IntModulus == 2 ^ 16

\* ------------------------------------------------------------ bounds

\* A transmission reaches loop() whole, or in two parts of which the first is
\* 1/Splits of it.
Splits == 2

\* ------------------------------------------------------------ C library

\* the value an int expression has after wrapping to 16 bits
ToInt16(x) ==
    LET u == x % IntModulus
    IN  IF u >= IntModulus \div 2 THEN u - IntModulus ELSE u

\* int / int, truncating toward zero (b # 0)
TruncDiv(a, b) ==
    LET abs(x) == IF x < 0 THEN 0 - x ELSE x
        q == abs(a) \div abs(b)
    IN  IF (a < 0) = (b < 0) THEN q ELSE 0 - q

\* int to unsigned long, as in the call delay(wait): the value is sign
\* extended to 32 bits, given here as its high and low 16-bit halves
ToULong(x) ==
    [hi |-> IF x < 0 THEN IntModulus - 1 ELSE 0, lo |-> x % IntModulus]

isspace(c) == c = 32 \/ (c >= 9 /\ c <= 13)
isdigit(c) == c >= 48 /\ c <= 57

RECURSIVE SkipSpace(_)
SkipSpace(str) ==
    IF str # <<>> /\ isspace(Head(str)) THEN SkipSpace(Tail(str)) ELSE str

\* the digits of atoi, accumulated in a 16-bit register without overflow check
RECURSIVE AtoiDigits(_, _)
AtoiDigits(str, acc) ==
    IF str = <<>> \/ ~isdigit(Head(str))
    THEN acc
    ELSE AtoiDigits(Tail(str), (acc * 10 + (Head(str) - 48)) % IntModulus)

\* atoi(fragment) for a token that is present: leading white space, an
\* optional sign, then digits up to the first other character; no digits
\* give 0 and a value that does not fit an int wraps.
atoi(str) ==
    LET t    == SkipSpace(str)
        sign == t # <<>> /\ Head(t) \in {43, 45}
        neg  == t # <<>> /\ Head(t) = 45
        mag  == AtoiDigits(IF sign THEN Tail(t) ELSE t, 0)
    IN  ToInt16(IF neg THEN 0 - mag ELSE mag)

\* The tokens that strtok(command, " ") and the following strtok(NULL, " ")
\* return, in order: maximal runs of bytes other than the space.  After the
\* last one strtok returns NULL.  cur is the token being collected.
RECURSIVE strtok(_, _)
strtok(str, cur) ==
    IF str = <<>>
    THEN IF cur = <<>> THEN <<>> ELSE <<cur>>
    ELSE IF Head(str) = 32
         THEN IF cur = <<>>
              THEN strtok(Tail(str), <<>>)
              ELSE <<cur>> \o strtok(Tail(str), <<>>)
         ELSE strtok(Tail(str), Append(cur, Head(str)))

\* What atoi returns for the NULL that strtok gives when the line has no
\* further token.  The read is undefined; on the target it reads the register
\* file at address 0, where r1 is zero, so the string has at most one
\* character and the result is a single digit's value.
NullAtoi == {0, 9}

\* What the quotient is when the divisor is zero.  The value is undefined;
\* the target's software division returns without trapping.
DivZeroWait == {0 - 1, 0}

\* ------------------------------------------------------------ strip driver

\* Adafruit_NeoPixel::Color: the three channels packed into a uint32_t
Color(r, g, b) == ((r % 256) * 65536) + ((g % 256) * 256) + (b % 256)

Pixels == 0 .. (LED_COUNT - 1)


\* FillStrip with a loop that stops one pixel early
FillStrip_StopsEarly(s, c) ==
    [s EXCEPT !.pixels = [j \in Pixels |-> IF j < LED_COUNT - 1 THEN c ELSE @[j]]]

\* strip.setPixelColor(j, c) for every j, the loops at lines 134-136,
\* 139-141, 145-147 and 219-221
FillStrip(s, c) == [s EXCEPT !.pixels = [j \in Pixels |-> c]]

\* strip.setPixelColor(i, c)
setPixelColor(s, i, c) == [s EXCEPT !.pixels[i] = c]

\* strip.setBrightness(b); the parameter is a uint8_t
setBrightness(s, b) == [s EXCEPT !.brightness = b % 256]

\* ------------------------------------------------------------ recorded events

\* An event is recorded in the log of the loop iteration.  Its field by tells
\* whether process_command ("cmd") or loop() itself ("loop") made the call.
Emit(s, e) == [s EXCEPT !.log = Append(@, e)]

\* strip.show(): what becomes visible
show(s, by) ==
    Emit(s, [k |-> "show", by |-> by, pos |-> s.pos, pixels |-> s.pixels,
             brightness |-> s.brightness, pulse_rising |-> s.pulse_rising,
             led |-> s.led])

\* delay(ms): blocks, nothing else happens meanwhile
delay(s, by, ms) == Emit(s, [k |-> "delay", by |-> by, ms |-> ToULong(ms)])

\* Serial.println(v) in process_command: the status line of the command
println(s, v) ==
    Emit(s, [k |-> "println", by |-> "cmd", v |-> v, pos |-> s.pos,
             pixels |-> s.pixels, brightness |-> s.brightness,
             is_pulsing |-> s.is_pulsing, pulse_rising |-> s.pulse_rising,
             led |-> s.led])

\* digitalWrite(LED_BUILTIN, v)
digitalWrite(s, v) == [s EXCEPT !.led = v]

\* an operation whose behaviour the language leaves undefined was executed
Undefined(s, what) == Emit(s, [k |-> "ub", by |-> "cmd", what |-> what])

\* ------------------------------------------------------------ process_command

\* ErrorReturn that returns without the status line
ErrorReturn_Silent(s) == s

\* "Serial.println(1); return;" of a failed validation
ErrorReturn(s) == println(s, 1)

\* lines 230-231: the exit of process_command that every branch without an
\* early return reaches
Finish(s, errno, name) ==
    LET r == println(digitalWrite(s, HIGH), errno)
    IN  IF errno = 0 THEN [r EXCEPT !.last_ok = name] ELSE r

\* fragment = strtok(NULL, " "); atoi(fragment): the possible values of the
\* i-th token of the line, with whether the token was absent
Arg(toks, i) ==
    IF i <= Len(toks)
    THEN {[v |-> atoi(toks[i]), null |-> FALSE]}
    ELSE {[v |-> x, null |-> TRUE] : x \in NullAtoi}

\* atoi was called on a; with a absent it was called on NULL
Fetch(s, a) == IF a.null THEN Undefined(s, "null_token") ELSE s

BadChannel(v) == 0 > v \/ 255 < v
BadCount(v) == 0 > v

\* lines 133-148: the blink loop and the final black
RECURSIVE BlinkLoop(_, _, _, _, _, _)
BlinkLoop(s, i, repeats, color, black, wait) ==
    IF i < repeats
    THEN LET a == delay(show(FillStrip(s, black), "cmd"), "cmd", wait)
             b == delay(show(FillStrip(a, color), "cmd"), "cmd", wait)
         IN  BlinkLoop(b, i + 1, repeats, color, black, wait)
    ELSE show(FillStrip(s, black), "cmd")

\* lines 131-148
BlinkEffect(s, color, black, wait, repeats) ==
    BlinkLoop(setBrightness([s EXCEPT !.is_pulsing = FALSE], DEFAULT_BRIGHTNESS),
              0, repeats, color, black, wait)

\* line 127: int wait = duration / (2 * repeats), as a set of outcomes with
\* the undefined operations it executes
BlinkWait(s, duration, repeats) ==
    LET twice == ToInt16(2 * repeats)
        s1    == IF 2 * repeats # twice THEN Undefined(s, "int_overflow") ELSE s
    IN  IF twice = 0
        THEN {[s |-> Undefined(s1, "div0"), wait |-> w] : w \in DivZeroWait}
        ELSE {[s |-> s1, wait |-> TruncDiv(duration, twice)]}

\* lines 92-148 for one choice of the values atoi returned
BlinkRun(s, r, g, b, d, n) ==
    LET s1 == Fetch(s, r) IN
    IF BadChannel(r.v) THEN {ErrorReturn(s1)} ELSE
    LET s2 == Fetch(s1, g) IN
    IF BadChannel(g.v) THEN {ErrorReturn(s2)} ELSE
    LET s3 == Fetch(s2, b) IN
    IF BadChannel(b.v) THEN {ErrorReturn(s3)} ELSE
    LET s4 == Fetch(s3, d) IN
    IF BadCount(d.v) THEN {ErrorReturn(s4)} ELSE
    LET s5 == Fetch(s4, n) IN
    IF BadCount(n.v) THEN {ErrorReturn(s5)} ELSE
    { Finish(BlinkEffect(w.s, Color(r.v, g.v, b.v), Color(0, 0, 0), w.wait, n.v),
             0, "blink") : w \in BlinkWait(s5, d.v, n.v) }

BlinkCmd(s, toks) ==
    UNION { BlinkRun(s, r, g, b, d, n) :
              r \in Arg(toks, 2), g \in Arg(toks, 3), b \in Arg(toks, 4),
              d \in Arg(toks, 5), n \in Arg(toks, 6) }

\* lines 186-190
RECURSIVE WipeLoop(_, _, _, _)
WipeLoop(s, i, color, wait) ==
    IF i < LED_COUNT
    THEN WipeLoop(delay(show(setPixelColor(s, i, color), "cmd"), "cmd", wait),
                  i + 1, color, wait)
    ELSE s

\* WipeEffect without the reset of the brightness
WipeEffect_KeepsBrightness(s, color, wait) ==
    WipeLoop([s EXCEPT !.is_pulsing = FALSE], 0, color, wait)

\* lines 184-190
WipeEffect(s, color, wait) ==
    WipeLoop(setBrightness([s EXCEPT !.is_pulsing = FALSE], DEFAULT_BRIGHTNESS),
             0, color, wait)

\* lines 153-190 for one choice of the values atoi returned
WipeRun(s, r, g, b, d) ==
    LET s1 == Fetch(s, r) IN
    IF BadChannel(r.v) THEN {ErrorReturn(s1)} ELSE
    LET s2 == Fetch(s1, g) IN
    IF BadChannel(g.v) THEN {ErrorReturn(s2)} ELSE
    LET s3 == Fetch(s2, b) IN
    IF BadChannel(b.v) THEN {ErrorReturn(s3)} ELSE
    LET s4 == Fetch(s3, d) IN
    IF BadCount(d.v) THEN {ErrorReturn(s4)} ELSE
    { Finish(WipeEffect(s4, Color(r.v, g.v, b.v), TruncDiv(d.v, LED_COUNT)),
             0, "wipe") }

WipeCmd(s, toks) ==
    UNION { WipeRun(s, r, g, b, d) :
              r \in Arg(toks, 2), g \in Arg(toks, 3), b \in Arg(toks, 4),
              d \in Arg(toks, 5) }

\* ColorEffect that leaves is_pulsing as it is
ColorEffect_KeepsPulsing(s, color) ==
    show(FillStrip(setBrightness(s, DEFAULT_BRIGHTNESS), color), "cmd")

\* lines 217-222
ColorEffect(s, color) ==
    show(FillStrip(setBrightness([s EXCEPT !.is_pulsing = FALSE],
                                 DEFAULT_BRIGHTNESS), color), "cmd")

\* lines 194-222 for one choice of the values atoi returned
ColorRun(s, r, g, b) ==
    LET s1 == Fetch(s, r) IN
    IF BadChannel(r.v) THEN {ErrorReturn(s1)} ELSE
    LET s2 == Fetch(s1, g) IN
    IF BadChannel(g.v) THEN {ErrorReturn(s2)} ELSE
    LET s3 == Fetch(s2, b) IN
    IF BadChannel(b.v) THEN {ErrorReturn(s3)} ELSE
    { Finish(ColorEffect(s3, Color(r.v, g.v, b.v)), 0, "color") }

ColorCmd(s, toks) ==
    UNION { ColorRun(s, r, g, b) :
              r \in Arg(toks, 2), g \in Arg(toks, 3), b \in Arg(toks, 4) }

\* PulseCmd that starts the animation afresh
PulseCmd_Restarts(s) ==
    { Finish(setBrightness([s EXCEPT !.is_pulsing = TRUE, !.pulse_rising = FALSE],
                           DEFAULT_BRIGHTNESS), 0, "pulse") }

\* lines 223-225
PulseCmd(s) == { Finish([s EXCEPT !.is_pulsing = TRUE], 0, "pulse") }

\* UnknownCmd that stops the animation
UnknownCmd_StopsPulsing(s) == { Finish([s EXCEPT !.is_pulsing = FALSE], 1, "") }

\* lines 226-228
UnknownCmd(s) == { Finish(s, 1, "") }

Name_blink == <<98, 108, 105, 110, 107>>
Name_wipe == <<119, 105, 112, 101>>
Name_color == <<99, 111, 108, 111, 114>>
Name_pulse == <<112, 117, 108, 115, 101>>

\* the string at input_buffer: the bytes before the first NUL
CString(buf) ==
    LET nul == CHOOSE i \in 0 .. MAX_INPUT_BUFFER_LEN :
                   buf[i] = 0 /\ \A j \in 0 .. (i - 1) : buf[j] # 0
    IN  [i \in 1 .. nul |-> buf[i - 1]]

\* process_command(input_buffer): the states it can return in.  strtok
\* overwrites the space after each token with a NUL; the caller clears the
\* buffer right after the call, so the model leaves the buffer as it is.
\* A line of spaces only has no token: strtok returns NULL and strcmp reads
\* through it, which is undefined; on the target the string at address 0 has
\* at most one character and equals no command name.
process_command(s) ==
    LET toks == strtok(CString(s.input_buffer), <<>>)
        s0   == digitalWrite(s, LOW)
    IN  IF toks = <<>> THEN UnknownCmd(Undefined(s0, "null_token"))
        ELSE IF toks[1] = Name_blink THEN BlinkCmd(s0, toks)
        ELSE IF toks[1] = Name_wipe THEN WipeCmd(s0, toks)
        ELSE IF toks[1] = Name_color THEN ColorCmd(s0, toks)
        ELSE IF toks[1] = Name_pulse THEN PulseCmd(s0)
        ELSE UnknownCmd(s0)

\* ------------------------------------------------------------ loop

\* flush_input_buffer whose memset stops one byte short
flush_input_buffer_OneShort(s) ==
    LET r == [s EXCEPT !.input_buffer =
                           [i \in 0 .. MAX_INPUT_BUFFER_LEN |->
                               IF i < s.len_input_buffer_data - 1 THEN 0 ELSE @[i]],
                       !.len_input_buffer_data = 0]
    IN  Emit(r, [k |-> "flush", by |-> "loop", pos |-> r.pos,
                 len |-> r.len_input_buffer_data,
                 dirty |-> {i \in 0 .. MAX_INPUT_BUFFER_LEN : r.input_buffer[i] # 0}])

\* flush_input_buffer: memset(input_buffer, 0, len_input_buffer_data), then
\* the length is reset.  The flush event records the buffer it leaves.
flush_input_buffer(s) ==
    LET r == [s EXCEPT !.input_buffer =
                           [i \in 0 .. MAX_INPUT_BUFFER_LEN |->
                               IF i < s.len_input_buffer_data THEN 0 ELSE @[i]],
                       !.len_input_buffer_data = 0]
    IN  Emit(r, [k |-> "flush", by |-> "loop", pos |-> r.pos,
                 len |-> r.len_input_buffer_data,
                 dirty |-> {i \in 0 .. MAX_INPUT_BUFFER_LEN : r.input_buffer[i] # 0}])

\* lines 292-295: a line terminator with data in the buffer.  The dispatch
\* event records what the command found.
Dispatch(s) ==
    LET e  == [k |-> "dispatch", by |-> "loop", pos |-> s.pos,
               line |-> strtok(CString(s.input_buffer), <<>>),
               pixels |-> s.pixels, brightness |-> s.brightness,
               is_pulsing |-> s.is_pulsing, pulse_rising |-> s.pulse_rising,
               led |-> s.led, tail |-> s.overflowed]
    IN  { flush_input_buffer(r) : r \in process_command(Emit(s, e)) }

\* lines 299-305: append a byte, report and drop the line when it is too long
AppendByte(s, input) ==
    LET a == [s EXCEPT !.input_buffer[s.len_input_buffer_data] = input,
                       !.len_input_buffer_data = @ + 1]
    IN  IF MAX_INPUT_BUFFER_LEN <= a.len_input_buffer_data
        THEN [flush_input_buffer(Emit(a, [k |-> "diag", by |-> "loop", pos |-> a.pos]))
                 EXCEPT !.overflowed = TRUE]
        ELSE a

\* SkipTerminator that hands the empty buffer to process_command
SkipTerminator_Dispatches(s) == Dispatch(s)

\* line 292 finds the buffer empty: the terminator is dropped.  The skip event
\* records that it was read.
SkipTerminator(s) == { Emit(s, [k |-> "skip", by |-> "loop", pos |-> s.pos]) }

\* lines 284-306: the switch on one byte read.  pos counts the bytes read in
\* this iteration; overflowed tells that the line being received has been
\* reported as too long.
Feed(s, input) ==
    LET r == [s EXCEPT !.pos = @ + 1]
    IN  IF input = 0 THEN {r}
        ELSE IF input \in {13, 10}
             THEN { [x EXCEPT !.overflowed = FALSE] :
                      x \in IF 0 < r.len_input_buffer_data
                            THEN Dispatch(r) ELSE SkipTerminator(r) }
             ELSE {AppendByte(r, input)}

\* lines 282-308: read until Serial.read() returns -1.  The bytes are fed in
\* order, those of the first half first; the result is the set of states
\* the reads can end in.
RECURSIVE Drain(_, _)
Drain(s, bytes) ==
    IF bytes = <<>> THEN {s}
    ELSE IF Len(bytes) = 1 THEN Feed(s, bytes[1])
    ELSE LET h == Len(bytes) \div 2
         IN  UNION { Drain(x, SubSeq(bytes, h + 1, Len(bytes))) :
                       x \in Drain(s, SubSeq(bytes, 1, h)) }

\* PulseStep that clamps without turning round
PulseStep_NeverTurns(s) ==
    LET b0 == s.brightness
        up == b0 + PULSE_BRIGHTNESS_STEP
        dn == b0 - PULSE_BRIGHTNESS_STEP
        r  == IF s.pulse_rising
              THEN IF MAX_PULSE_BRIGHTNESS < up
                   THEN [s EXCEPT !.brightness = MAX_PULSE_BRIGHTNESS]
                   ELSE [s EXCEPT !.brightness = up]
              ELSE IF MIN_PULSE_BRIGHTNESS > dn
                   THEN [s EXCEPT !.brightness = MIN_PULSE_BRIGHTNESS]
                   ELSE [s EXCEPT !.brightness = dn]
    IN  delay(show(setBrightness(r, r.brightness), "loop"), "loop", 100)

\* PulseStep that turns round as soon as the bound is reached
PulseStep_TurnsOnReach(s) ==
    LET b0 == s.brightness
        up == b0 + PULSE_BRIGHTNESS_STEP
        dn == b0 - PULSE_BRIGHTNESS_STEP
        r  == IF s.pulse_rising
              THEN IF MAX_PULSE_BRIGHTNESS <= up
                   THEN [s EXCEPT !.pulse_rising = FALSE, !.brightness = MAX_PULSE_BRIGHTNESS]
                   ELSE [s EXCEPT !.brightness = up]
              ELSE IF MIN_PULSE_BRIGHTNESS >= dn
                   THEN [s EXCEPT !.pulse_rising = TRUE, !.brightness = MIN_PULSE_BRIGHTNESS]
                   ELSE [s EXCEPT !.brightness = dn]
    IN  delay(show(setBrightness(r, r.brightness), "loop"), "loop", 100)

\* lines 310-328: one step of the pulse animation
PulseStep(s) ==
    LET b0 == s.brightness
        up == b0 + PULSE_BRIGHTNESS_STEP
        dn == b0 - PULSE_BRIGHTNESS_STEP
        r  == IF s.pulse_rising
              THEN IF MAX_PULSE_BRIGHTNESS < up
                   THEN [s EXCEPT !.pulse_rising = FALSE, !.brightness = MAX_PULSE_BRIGHTNESS]
                   ELSE [s EXCEPT !.brightness = up]
              ELSE IF MIN_PULSE_BRIGHTNESS > dn
                   THEN [s EXCEPT !.pulse_rising = TRUE, !.brightness = MIN_PULSE_BRIGHTNESS]
                   ELSE [s EXCEPT !.brightness = dn]
    IN  delay(show(setBrightness(r, r.brightness), "loop"), "loop", 100)

\* LoopBody with the pulse step ahead of the reads
LoopBody_StepsFirst(s, bytes) ==
    Drain(IF s.is_pulsing THEN PulseStep([s EXCEPT !.log = <<>>, !.pos = 0])
                          ELSE [s EXCEPT !.log = <<>>, !.pos = 0], bytes)

\* loop() with the bytes it finds available
LoopBody(s, bytes) ==
    { IF r.is_pulsing THEN PulseStep(r) ELSE r :
        r \in Drain([s EXCEPT !.log = <<>>, !.pos = 0], bytes) }


\* ------------------------------------------------------------ state

VARIABLES
    input_buffer,           \* the 128 bytes allocated in setup
    len_input_buffer_data,  \* the number of bytes of the line received so far
    pixels,                 \* strip: the color of each pixel
    brightness,             \* strip: the brightness
    is_pulsing,
    pulse_rising,
    led_builtin,            \* the level of the LED_BUILTIN pin
    host,                   \* the bytes the peer has sent that loop() has not read
    log,                    \* the events of the last loop iteration, in order
    last_ok,                \* the name of the last command answered with 0
    overflowed,             \* the line being received was reported as too long
    blink_call              \* the locals duration, repeats and wait of the blink
                            \* branch, followed only where line 127 is run alone

vars == <<input_buffer, len_input_buffer_data, pixels, brightness, is_pulsing,
          pulse_rising, led_builtin, host, log, last_ok, overflowed, blink_call>>

\* the firmware state as the record the operators above work on
State ==
    [input_buffer |-> input_buffer,
     len_input_buffer_data |-> len_input_buffer_data,
     pixels |-> pixels, brightness |-> brightness,
     is_pulsing |-> is_pulsing, pulse_rising |-> pulse_rising,
     led |-> led_builtin, log |-> log, last_ok |-> last_ok,
     overflowed |-> overflowed, pos |-> 0]

\* the blink branch is not being followed
NoCall == [duration |-> 0, repeats |-> 0, wait |-> 0, done |-> FALSE]

\* ------------------------------------------------------------ inputs

\* what the peer sends in one go
TxPulse == <<112, 117, 108, 115, 101, 10>>   \* "pulse\n"
TxColor == <<99, 111, 108, 111, 114, 32, 49, 48, 32, 50, 48, 32, 51, 48, 13, 10>>   \* "color 10 20 30\r\n"
TxColorHigh == <<99, 111, 108, 111, 114, 32, 51, 48, 48, 32, 48, 32, 48, 10>>   \* "color 300 0 0\n"
TxColorText == <<99, 111, 108, 111, 114, 32, 97, 98, 99, 32, 48, 32, 48, 10>>   \* "color abc 0 0\n"
TxColorWrap == <<99, 111, 108, 111, 114, 32, 54, 53, 53, 51, 54, 32, 48, 32, 48, 10>>   \* "color 65536 0 0\n"
TxBlinkShort == <<98, 108, 105, 110, 107, 32, 48, 32, 48, 32, 48, 32, 48, 10>>   \* "blink 0 0 0 0\n"
TxUnknown == <<102, 0, 111, 111, 10>>   \* "f\0oo\n"
TxSpaces == <<32, 32, 10>>   \* "  \n"
TxBlink == <<98, 108, 105, 110, 107, 32, 50, 53, 53, 32, 48, 32, 48, 32, 49, 48, 48, 48, 32, 50, 13, 10>>   \* "blink 255 0 0 1000 2\r\n"
TxBlinkZero == <<98, 108, 105, 110, 107, 32, 49, 32, 49, 32, 49, 32, 49, 48, 32, 48, 10>>   \* "blink 1 1 1 10 0\n"
TxBlinkNeg == <<98, 108, 105, 110, 107, 32, 49, 32, 49, 32, 49, 32, 45, 49, 48, 32, 49, 10>>   \* "blink 1 1 1 -10 1\n"
TxWipe == <<119, 105, 112, 101, 32, 49, 48, 32, 50, 48, 32, 51, 48, 32, 49, 53, 48, 10>>   \* "wipe 10 20 30 150\n"
TxWipeNeg == <<119, 105, 112, 101, 32, 49, 48, 32, 50, 48, 32, 51, 48, 32, 45, 53, 10>>   \* "wipe 10 20 30 -5\n"
TxPulseColor == <<112, 117, 108, 115, 101, 10, 99, 111, 108, 111, 114, 32, 49, 48, 32, 50, 48, 32, 51, 48, 10>>   \* "pulse\ncolor 10 20 30\n"
TxCrLf == <<13, 10>>   \* "\r\n"
TxBlinkLong == <<98, 108, 105, 110, 107, 32, 50, 53, 53, 32, 48, 32, 48, 32, 52, 48, 48, 48, 48, 32, 50, 10>>   \* "blink 255 0 0 40000 2\n"
TxWipeLong == <<119, 105, 112, 101, 32, 49, 48, 32, 50, 48, 32, 51, 48, 32, 52, 48, 48, 48, 48, 10>>   \* "wipe 10 20 30 40000\n"
\* MAX_INPUT_BUFFER_LEN times "x", then "pulse\n"
TxLongTail == [i \in 1 .. MAX_INPUT_BUFFER_LEN |-> 120] \o TxPulse

Inputs ==
    {TxPulse, TxColor, TxColorHigh, TxColorText, TxColorWrap, TxUnknown,
     TxSpaces, TxBlink, TxBlinkZero, TxBlinkNeg, TxBlinkShort, TxWipe,
     TxWipeNeg, TxPulseColor, TxCrLf, TxLongTail, TxBlinkLong, TxWipeLong}

\* ------------------------------------------------------------ behaviour

\* the state in which setup() leaves the firmware
Init ==
    /\ input_buffer = [i \in 0 .. MAX_INPUT_BUFFER_LEN |-> 0]
    /\ len_input_buffer_data = 0
    /\ pixels = [j \in Pixels |-> 0]
    /\ brightness = DEFAULT_BRIGHTNESS
    /\ is_pulsing = FALSE
    /\ pulse_rising = FALSE
    /\ led_builtin = HIGH
    /\ host = <<>>
    /\ log = <<>>
    /\ last_ok = ""
    /\ overflowed = FALSE
    /\ blink_call = NoCall

\* One call of loop(): of the bytes in flight it finds the first n available
\* and leaves the others to the next call.
LoopStep(flight, n) ==
    \E r \in LoopBody(State, SubSeq(flight, 1, n)) :
        /\ host' = SubSeq(flight, n + 1, Len(flight))
        /\ input_buffer' = r.input_buffer
        /\ len_input_buffer_data' = r.len_input_buffer_data
        /\ pixels' = r.pixels
        /\ brightness' = r.brightness
        /\ is_pulsing' = r.is_pulsing
        /\ pulse_rising' = r.pulse_rising
        /\ led_builtin' = r.led
        /\ log' = r.log
        /\ last_ok' = r.last_ok
        /\ overflowed' = r.overflowed
        /\ UNCHANGED blink_call

\* loop() runs while the peer is silent
Idle ==
    /\ host = <<>>
    /\ LoopStep(<<>>, 0)

\* the peer has sent tx, and loop() finds all of it or its first part
Receive ==
    /\ host = <<>>
    /\ \E tx \in Inputs : \E n \in {Len(tx) \div Splits, Len(tx)} : LoopStep(tx, n)

\* loop() finds the rest of a transmission
Continue ==
    /\ host # <<>>
    /\ LoopStep(host, Len(host))

Next == Idle \/ Receive \/ Continue

Spec == Init /\ [][Next]_vars

\* ------------------------------------------------------------ the pulse alone

\* Pulsing is on, the peer is silent, and the brightness and the direction
\* are any the pulse range allows.
InitPulse ==
    /\ input_buffer = [i \in 0 .. MAX_INPUT_BUFFER_LEN |-> 0]
    /\ len_input_buffer_data = 0
    /\ pixels = [j \in Pixels |-> 0]
    /\ brightness \in MIN_PULSE_BRIGHTNESS .. MAX_PULSE_BRIGHTNESS
    /\ is_pulsing = TRUE
    /\ pulse_rising \in BOOLEAN
    /\ led_builtin = HIGH
    /\ host = <<>>
    /\ log = <<>>
    /\ last_ok = "pulse"
    /\ overflowed = FALSE
    /\ blink_call = NoCall

\* loop() is called again and again and finds nothing to read
SpecPulse == InitPulse /\ [][Idle]_vars

\* Pulsing has been turned on, at whatever brightness the strip can have and
\* in either direction, and the peer stays silent.
InitBreathe ==
    /\ input_buffer = [i \in 0 .. MAX_INPUT_BUFFER_LEN |-> 0]
    /\ len_input_buffer_data = 0
    /\ pixels = [j \in Pixels |-> 0]
    /\ brightness \in 0 .. 255
    /\ is_pulsing = TRUE
    /\ pulse_rising \in BOOLEAN
    /\ led_builtin = HIGH
    /\ host = <<>>
    /\ log = <<>>
    /\ last_ok = "pulse"
    /\ overflowed = FALSE
    /\ blink_call = NoCall

\* main() calls loop() for ever and delay(100) returns, so an iteration that
\* can run does run.
SpecBreathe == InitBreathe /\ [][Idle]_vars /\ WF_vars(Idle)

\* ------------------------------------------------------------ the blink wait alone

\* the largest int of the target
INT_MAX == (IntModulus \div 2) - 1

\* durations and repeat counts that pass the tests at lines 115 and 122:
\* small ones, and the ones around the points where 2 * repeats leaves the int
Durations == {0, 1, 2, 999, 1000, 16384, 30000, INT_MAX - 1, INT_MAX}
Repeats == {1, 2, 3, 500, INT_MAX \div 2, (INT_MAX \div 2) + 1, 20000, INT_MAX - 1, INT_MAX}

\* process_command is in the blink branch with its arguments read and
\* accepted, about to run line 127.
InitWait ==
    /\ input_buffer = [i \in 0 .. MAX_INPUT_BUFFER_LEN |-> 0]
    /\ len_input_buffer_data = 0
    /\ pixels = [j \in Pixels |-> 0]
    /\ brightness = DEFAULT_BRIGHTNESS
    /\ is_pulsing = FALSE
    /\ pulse_rising = FALSE
    /\ led_builtin = LOW
    /\ host = <<>>
    /\ log = <<>>
    /\ last_ok = ""
    /\ overflowed = FALSE
    /\ blink_call \in {[duration |-> d, repeats |-> n, wait |-> 0, done |-> FALSE] :
                          d \in Durations, n \in Repeats}

\* line 127, and the first delay(wait) of the loop, line 138
ComputeWait ==
    /\ ~blink_call.done
    /\ \E w \in BlinkWait(State, blink_call.duration, blink_call.repeats) :
          /\ blink_call' = [blink_call EXCEPT !.wait = w.wait, !.done = TRUE]
          /\ log' = delay(w.s, "cmd", w.wait).log
    /\ UNCHANGED <<input_buffer, len_input_buffer_data, pixels, brightness,
                   is_pulsing, pulse_rising, led_builtin, host, last_ok, overflowed>>

SpecWait == InitWait /\ [][ComputeWait]_vars


\* ------------------------------------------------------------ reading the log

\* the positions of the log at which a line is handed to process_command
Dispatches == {i \in DOMAIN log : log[i].k = "dispatch"}

\* whether process_command wrote a status line for the dispatch at i before
\* the next line was dispatched
Answered(i) ==
    \E j \in (i + 1) .. Len(log) :
        /\ log[j].k = "println"
        /\ \A m \in (i + 1) .. (j - 1) : log[m].k # "dispatch"

\* the position of the first status line after the dispatch at i
StatusOf(i) ==
    CHOOSE j \in (i + 1) .. Len(log) :
        /\ log[j].k = "println"
        /\ \A m \in (i + 1) .. (j - 1) : log[m].k # "println"

\* the positions of the shows between the dispatch at i and its status line
ShowsOf(i) == {m \in (i + 1) .. (StatusOf(i) - 1) : log[m].k = "show"}

\* the command a line names, "" when it names none
NameOf(toks) ==
    IF toks = <<>> THEN ""
    ELSE IF toks[1] = Name_blink THEN "blink"
    ELSE IF toks[1] = Name_wipe THEN "wipe"
    ELSE IF toks[1] = Name_color THEN "color"
    ELSE IF toks[1] = Name_pulse THEN "pulse"
    ELSE ""

\* the number of arguments of a command that are color channels and the
\* number that are durations or counts
Channels(name) == IF name \in {"blink", "wipe", "color"} THEN 3 ELSE 0
Counts(name) == IF name = "blink" THEN 2 ELSE IF name = "wipe" THEN 1 ELSE 0

\* a token written as a decimal number: an optional sign, then digits only
IsNumber(tok) ==
    LET body == IF tok # <<>> /\ tok[1] \in {43, 45} THEN Tail(tok) ELSE tok
    IN  body # <<>> /\ \A p \in DOMAIN body : isdigit(body[p])

\* the number a decimal token denotes, whatever its size
RECURSIVE Decimal(_, _)
Decimal(digits, acc) ==
    IF digits = <<>> THEN acc
    ELSE Decimal(Tail(digits), acc * 10 + (Head(digits) - 48))

NumValue(tok) ==
    IF tok[1] = 45 THEN 0 - Decimal(Tail(tok), 0)
    ELSE IF tok[1] = 43 THEN Decimal(Tail(tok), 0)
    ELSE Decimal(tok, 0)

\* the p-th argument of the line toks is present, a number, and in the range
\* its position asks for
ArgValid(toks, p) ==
    /\ p + 1 <= Len(toks)
    /\ IsNumber(toks[p + 1])
    /\ IF p <= 3 THEN NumValue(toks[p + 1]) \in 0 .. 255
                 ELSE NumValue(toks[p + 1]) >= 0

\* the p-th argument is a number outside its range
ArgOutOfRange(toks, p) ==
    /\ p + 1 <= Len(toks)
    /\ IsNumber(toks[p + 1])
    /\ ~ArgValid(toks, p)

\* the p-th argument is present and is no number
ArgNotNumber(toks, p) == p + 1 <= Len(toks) /\ ~IsNumber(toks[p + 1])

\* the command dispatched at i was refused: status 1, nothing shown, and the
\* strip and the pulsing mode as the command found them
Refused(i) ==
    /\ Answered(i)
    /\ log[StatusOf(i)].v = 1
    /\ ShowsOf(i) = {}
    /\ log[StatusOf(i)].pixels = log[i].pixels
    /\ log[StatusOf(i)].brightness = log[i].brightness
    /\ log[StatusOf(i)].is_pulsing = log[i].is_pulsing

\* the channels of a packed color
Red(c) == c \div 65536
Green(c) == (c \div 256) % 256
Blue(c) == c % 256

\* every pixel of px has the channels r, g, b
AllPixels(px, r, g, b) ==
    \A j \in 0 .. (LED_COUNT - 1) :
        Red(px[j]) = r /\ Green(px[j]) = g /\ Blue(px[j]) = b

\* the place of the show at m among the shows at the positions S, from 1
Rank(S, m) == Cardinality({x \in S : x <= m})

\* the pixel px[j] has the channels r, g, b
PixelIs(px, j, r, g, b) == Red(px[j]) = r /\ Green(px[j]) = g /\ Blue(px[j]) = b

\* ------------------------------------------------------------ claims

\* C1: every line dispatched to process_command gets exactly one status line
\* (0 or 1), written after everything the command shows and before any
\* further byte is read, so that status lines answer the dispatched lines in
\* order: in the log of an iteration every dispatch is followed by events of
\* the command only, up to one status line written at the same read position,
\* after which the command does nothing more; and every event of a command
\* follows its dispatch.
OneStatusPerLine ==
    /\ \A i \in Dispatches :
         \E j \in (i + 1) .. Len(log) :
             /\ log[j].k = "println"
             /\ log[j].v \in {0, 1}
             /\ log[j].pos = log[i].pos
             /\ \A m \in (i + 1) .. (j - 1) :
                    log[m].by = "cmd" /\ log[m].k \in {"show", "delay", "ub"}
             /\ (j < Len(log) => log[j + 1].by = "loop")
    /\ \A m \in DOMAIN log :
         log[m].by = "cmd" => m > 1 /\ (log[m - 1].by = "cmd" \/ log[m - 1].k = "dispatch")
    /\ \A m \in DOMAIN log :
         log[m].k = "println" => m > 1 /\ log[m - 1].k # "println"

\* C1 witness: one iteration processed two lines, the second of which showed
\* something, and answered both
TwoLinesAnswered ==
    \E i \in Dispatches : \E j \in Dispatches :
        i < j /\ Answered(j) /\ ShowsOf(j) # {} /\ log[StatusOf(j)].pos > log[i].pos

\* C2: a blink, wipe or color command with an argument that is a number
\* outside its range, the arguments before it being valid, is refused with
\* status 1 and leaves the strip untouched.
OutOfRangeRefused ==
    \A i \in Dispatches :
        LET toks == log[i].line
            n    == Channels(NameOf(toks)) + Counts(NameOf(toks))
        IN  (\E p \in 1 .. n :
                 ArgOutOfRange(toks, p) /\ \A q \in 1 .. (p - 1) : ArgValid(toks, q))
            => Refused(i)

\* C3: a blink, wipe or color command with an argument that is no number, the
\* arguments before it being valid, is refused with status 1 and no effect
\* runs.
NotANumberRefused ==
    \A i \in Dispatches :
        LET toks == log[i].line
            n    == Channels(NameOf(toks)) + Counts(NameOf(toks))
        IN  (\E p \in 1 .. n :
                 ArgNotNumber(toks, p) /\ \A q \in 1 .. (p - 1) : ArgValid(toks, q))
            => Refused(i)

\* C4 as stated: when an iteration that processed a line ends, is_pulsing is
\* true only if the last line processed was pulse.  (Lines without any token
\* are left aside: what they do rests on a read through NULL.)
PulsingOnlyAfterPulseLine ==
    \A i \in Dispatches :
        (is_pulsing /\ log[i].line # <<>> /\ \A j \in Dispatches : j <= i)
            => NameOf(log[i].line) = "pulse"

\* C4 amended: is_pulsing is true only if the last line answered with status
\* 0 was pulse; a blink, wipe or color line answered with 0 leaves pulsing
\* off, and a line answered with 1 leaves is_pulsing as it found it.
PulsingOnlyAfterAcceptedPulse ==
    /\ is_pulsing => last_ok = "pulse"
    /\ \A i \in Dispatches :
         Answered(i) =>
            LET st == log[StatusOf(i)]
            IN  /\ (st.v = 0 /\ NameOf(log[i].line) # "pulse") => ~st.is_pulsing
                /\ st.v = 1 => st.is_pulsing = log[i].is_pulsing

\* C4 witness: pulsing is still on after a line other than pulse was processed
StillPulsingAfterOtherLine ==
    /\ is_pulsing
    /\ \E i \in Dispatches :
         NameOf(log[i].line) # "pulse" /\ Answered(i) /\ log[i].is_pulsing

\* C5: no part of a line that was reported as too long is handed to
\* process_command.
TooLongLineDiscarded == \A i \in Dispatches : ~log[i].tail

\* C6: every brightness a pulse step shows lies in
\* [MIN_PULSE_BRIGHTNESS, MAX_PULSE_BRIGHTNESS].
PulseShowsInRange ==
    \A m \in DOMAIN log :
        (log[m].k = "show" /\ log[m].by = "loop") =>
            /\ MIN_PULSE_BRIGHTNESS <= log[m].brightness
            /\ log[m].brightness <= MAX_PULSE_BRIGHTNESS

\* C7: the indicator is HIGH when a status line is written, whatever the
\* outcome of the command, and so whenever no command is being processed.
IndicatorIdleOutsideCommands ==
    /\ led_builtin = HIGH
    /\ \A m \in DOMAIN log : log[m].k = "println" => log[m].led = HIGH

\* C8: no line makes the firmware divide by zero or use a token that is
\* absent.
NoUndefinedOperation ==
    \A m \in DOMAIN log :
        log[m].k = "ub" => log[m].what \notin {"div0", "null_token"}

\* C9: color R G B with R, G, B in [0,255] sets all LED_COUNT pixels to
\* exactly (R, G, B), shows the strip exactly once, with those pixels, leaves
\* pulsing off and is answered with status 0.
ColorSetsEveryPixel ==
    \A i \in Dispatches :
        LET toks == log[i].line
        IN  (NameOf(toks) = "color" /\ \A p \in 1 .. 3 : ArgValid(toks, p)) =>
                /\ Answered(i)
                /\ LET st == log[StatusOf(i)]
                       r  == NumValue(toks[2])
                       g  == NumValue(toks[3])
                       b  == NumValue(toks[4])
                   IN  /\ st.v = 0
                       /\ ~st.is_pulsing
                       /\ AllPixels(st.pixels, r, g, b)
                       /\ Cardinality(ShowsOf(i)) = 1
                       /\ \A m \in ShowsOf(i) : AllPixels(log[m].pixels, r, g, b)

\* C9 witness: a valid color command was processed while pulsing was on and
\* the pixels had another color
ColorDuringPulse ==
    \E i \in Dispatches :
        /\ NameOf(log[i].line) = "color"
        /\ \A p \in 1 .. 3 : ArgValid(log[i].line, p)
        /\ log[i].is_pulsing
        /\ Answered(i)
        /\ log[i].pixels # log[StatusOf(i)].pixels

BlinkCyclesThenBlack ==
    \A i \in Dispatches :
        LET toks == log[i].line
        IN  (/\ NameOf(toks) = "blink"
             /\ \A p \in 1 .. 5 : ArgValid(toks, p)
             /\ NumValue(toks[6]) >= 1) =>
                /\ Answered(i)
                /\ LET st == log[StatusOf(i)]
                       S  == ShowsOf(i)
                       r  == NumValue(toks[2])
                       g  == NumValue(toks[3])
                       b  == NumValue(toks[4])
                   IN  /\ st.v = 0
                       /\ AllPixels(st.pixels, 0, 0, 0)
                       /\ Cardinality(S) = 2 * NumValue(toks[6]) + 1
                       /\ \A m \in S :
                              /\ log[m].by = "cmd"
                              /\ log[m].pos = log[i].pos
                              /\ IF Rank(S, m) % 2 = 1
                                 THEN AllPixels(log[m].pixels, 0, 0, 0)
                                 ELSE AllPixels(log[m].pixels, r, g, b)
                       /\ \A m \in (i + 1) .. (StatusOf(i) - 1) : log[m].by = "cmd"

\* C12: wipe R G B D with valid arguments makes exactly LED_COUNT shows; at
\* the k-th the pixels 0 .. k-1 have the color and the others the colors the
\* command found; at the end every pixel has the color and the status is 0.
WipeLightsInOrder ==
    \A i \in Dispatches :
        LET toks == log[i].line
        IN  (NameOf(toks) = "wipe" /\ \A p \in 1 .. 4 : ArgValid(toks, p)) =>
                /\ Answered(i)
                /\ LET st == log[StatusOf(i)]
                       S  == ShowsOf(i)
                       r  == NumValue(toks[2])
                       g  == NumValue(toks[3])
                       b  == NumValue(toks[4])
                   IN  /\ st.v = 0
                       /\ AllPixels(st.pixels, r, g, b)
                       /\ Cardinality(S) = LED_COUNT
                       /\ \A m \in S : \A j \in Pixels :
                              IF j < Rank(S, m)
                              THEN PixelIs(log[m].pixels, j, r, g, b)
                              ELSE log[m].pixels[j] = log[i].pixels[j]

\* C13: a pulse line is answered with 0 and leaves pulsing on; the pixels, the
\* brightness and the pulse direction are as the command found them, and the
\* command shows nothing.
PulseOnlyTurnsPulsingOn ==
    \A i \in Dispatches :
        NameOf(log[i].line) = "pulse" =>
            /\ Answered(i)
            /\ LET st == log[StatusOf(i)]
               IN  /\ st.v = 0
                   /\ st.is_pulsing
                   /\ st.pixels = log[i].pixels
                   /\ st.brightness = log[i].brightness
                   /\ st.pulse_rising = log[i].pulse_rising
            /\ ShowsOf(i) = {}

\* C13 witness: a pulse line was processed in the rising half of a pulse, at a
\* brightness other than the default
PulseWhilePulsing ==
    \E i \in Dispatches :
        /\ NameOf(log[i].line) = "pulse"
        /\ Answered(i)
        /\ log[i].is_pulsing
        /\ log[i].pulse_rising
        /\ log[i].brightness # DEFAULT_BRIGHTNESS

\* C14: a line whose first token is no command name is answered with 1; the
\* pixels, the brightness, the pulsing mode and the pulse direction are as
\* the line found them, and nothing is shown.
UnknownLineNoEffect ==
    \A i \in Dispatches :
        (log[i].line # <<>> /\ NameOf(log[i].line) = "") =>
            /\ Refused(i)
            /\ log[StatusOf(i)].pulse_rising = log[i].pulse_rising

\* C14 witness: a line with an unknown name was processed in the rising half
\* of a pulse, the strip not being black
UnknownDuringPulse ==
    \E i \in Dispatches :
        /\ log[i].line # <<>>
        /\ NameOf(log[i].line) = ""
        /\ Answered(i)
        /\ log[i].is_pulsing
        /\ log[i].pulse_rising
        /\ \E j \in Pixels : log[i].pixels[j] # 0

\* the fields of the firmware's own state are in r what they are now
SameFirmwareState(r) ==
    /\ r.input_buffer = input_buffer
    /\ r.len_input_buffer_data = len_input_buffer_data
    /\ r.pixels = pixels
    /\ r.brightness = brightness
    /\ r.is_pulsing = is_pulsing
    /\ r.pulse_rising = pulse_rising
    /\ r.led = led_builtin

\* C15: a terminator read while the buffer is empty writes no status line and
\* no diagnostic and changes nothing; so the byte after a terminator that
\* completed a line gets no status of its own (one status for a line ended by
\* CR and LF), and no status or diagnostic is written where a terminator was
\* skipped (none for a lone CR, LF).
EmptyLineIgnored ==
    /\ len_input_buffer_data = 0 =>
          \A b \in {13, 10} : \A r \in Feed(State, b) :
              /\ SameFirmwareState(r)
              /\ Len(r.log) = Len(log) + 1
              /\ r.log[Len(r.log)].k = "skip"
    /\ \A i \in Dispatches :
          Cardinality({m \in DOMAIN log :
                          /\ log[m].k \in {"println", "diag"}
                          /\ log[m].pos \in {log[i].pos, log[i].pos + 1}}) = 1
    /\ \A n \in DOMAIN log :
          log[n].k = "skip" =>
              \A m \in DOMAIN log :
                  (\/ log[m].k \in {"println", "diag", "flush", "dispatch"}
                   \/ log[m].k = "show" /\ log[m].by = "cmd")
                      => log[m].pos # log[n].pos

\* C15 witness: an iteration read a command ended by CR and LF
CrLfAfterCommand ==
    \E i \in Dispatches : \E n \in DOMAIN log :
        /\ log[n].k = "skip"
        /\ log[n].pos = log[i].pos + 1
        /\ Answered(i)
        /\ log[StatusOf(i)].v = 0

\* the positions of the log at which loop() itself shows the strip: the pulse
\* steps
PulseSteps == {m \in DOMAIN log : log[m].k = "show" /\ log[m].by = "loop"}

BufferInvariant ==
    /\ len_input_buffer_data \in 0 .. (MAX_INPUT_BUFFER_LEN - 1)
    /\ \A i \in len_input_buffer_data .. MAX_INPUT_BUFFER_LEN : input_buffer[i] = 0
    /\ \A m \in DOMAIN log :
          /\ log[m].k = "flush" => log[m].len = 0 /\ log[m].dirty = {}
          /\ log[m].k \in {"println", "diag"} =>
                 m < Len(log) /\ log[m + 1].k = "flush" /\ log[m + 1].pos = log[m].pos

\* C18 witness: a line was reported as too long and flushed, and later bytes
\* of the same read made a line that was processed and flushed
OverflowFlushed ==
    \E m \in DOMAIN log : \E i \in Dispatches :
        /\ log[m].k = "diag"
        /\ log[m].pos = MAX_INPUT_BUFFER_LEN
        /\ log[m + 1].k = "flush"
        /\ m < i
        /\ Answered(i)
        /\ log[StatusOf(i) + 1].k = "flush"

\* what one pulse step does to the brightness and the direction
PulseStepAsClaimed ==
    LET stepped == IF pulse_rising THEN brightness + PULSE_BRIGHTNESS_STEP
                                   ELSE brightness - PULSE_BRIGHTNESS_STEP
        clamped == stepped > MAX_PULSE_BRIGHTNESS \/ stepped < MIN_PULSE_BRIGHTNESS
        shown   == log'[Len(log') - 1]
    IN  /\ brightness' \in MIN_PULSE_BRIGHTNESS .. MAX_PULSE_BRIGHTNESS
        /\ ~clamped => brightness' = stepped /\ pulse_rising' = pulse_rising
        /\ clamped => /\ pulse_rising' # pulse_rising
                      /\ brightness' = IF stepped > MAX_PULSE_BRIGHTNESS
                                        THEN MAX_PULSE_BRIGHTNESS
                                        ELSE MIN_PULSE_BRIGHTNESS
        /\ shown.k = "show"
        /\ shown.by = "loop"
        /\ shown.brightness = brightness'

\* C16: from any brightness in [MIN_PULSE_BRIGHTNESS, MAX_PULSE_BRIGHTNESS]
\* and either direction, every pulse step leaves the brightness in that
\* range; it moves the brightness by exactly PULSE_BRIGHTNESS_STEP and keeps
\* the direction unless the stepped value leaves the range, and then it shows
\* the bound that was passed and turns the direction round.
PulseStepClamps == [][PulseStepAsClaimed]_vars

\* C16 witness: a step was clamped to MAX_PULSE_BRIGHTNESS and turned the
\* direction round
ClampedAtTop ==
    /\ Len(log) = 2
    /\ log[1].k = "show"
    /\ log[1].brightness = MAX_PULSE_BRIGHTNESS
    /\ brightness = MAX_PULSE_BRIGHTNESS
    /\ ~pulse_rising

\* the last iteration made a pulse step that showed the brightness b
PulseShown(b) ==
    /\ Len(log) = 2
    /\ log[1].k = "show"
    /\ log[1].by = "loop"
    /\ log[1].brightness = b

\* C19: with pulsing on and the peer silent, the pulse shows
\* MAX_PULSE_BRIGHTNESS again and again and MIN_PULSE_BRIGHTNESS again and
\* again, and the direction keeps turning, whatever the brightness and the
\* direction were at the start.
PulseBreathes ==
    /\ []<>PulseShown(MAX_PULSE_BRIGHTNESS)
    /\ []<>PulseShown(MIN_PULSE_BRIGHTNESS)
    /\ []<>pulse_rising
    /\ []<>(~pulse_rising)

\* C19 witness: the pulse came down to MIN_PULSE_BRIGHTNESS and turned
BottomTurned ==
    /\ PulseShown(MIN_PULSE_BRIGHTNESS)
    /\ brightness = MIN_PULSE_BRIGHTNESS
    /\ pulse_rising

\* C20: in a blink with REPEATS >= 1 the value passed to delay is the
\* truncating quotient DURATION / (2 * REPEATS), which is at least 0 and at
\* most DURATION, for every DURATION >= 0 and REPEATS that fit the 16-bit int.
WaitIsHalfCycle ==
    (blink_call.done /\ blink_call.repeats >= 1) =>
        LET q == blink_call.duration \div (2 * blink_call.repeats)
        IN  /\ blink_call.wait = q
            /\ 0 <= blink_call.wait
            /\ blink_call.wait <= blink_call.duration
            /\ log[Len(log)].k = "delay"
            /\ log[Len(log)].ms = [hi |-> 0, lo |-> q]

====
